---------------------------- MODULE Spec2Model ----------------------------
(***************************************************************************)
(* Model of the x402 payment client of src/index.ts: makePaidRequest       *)
(* (payAndRequest in the specification) and handlePayment (fulfill).       *)
(*                                                                         *)
(* One call of makePaidRequest is a sequence of steps, one per `await` of   *)
(* the code: the await of a fetch, the await of the read of a response's   *)
(* body (json() or text()), the await of a library call, the await of      *)
(* handlePayment.  An action resumes the call at the await it is suspended *)
(* on and runs the code up to the next await; requests and responses are   *)
(* appended to `net`, the call's network traffic.                          *)
(***************************************************************************)
EXTENDS Integers, Sequences, FiniteSets, TLC

(***************************************************************************)
(* Bounds of the model.                                                    *)
(***************************************************************************)
\* calls of makePaidRequest the tool layer makes one after the other
MaxCalls == 2
\* entries of the `accepts` array of a 402 body
MaxAccepts == 2
\* accounts of a relay instruction (wide instruction domain)
MaxAccounts == 2

(***************************************************************************)
(* JavaScript values.                                                      *)
(***************************************************************************)
\* `undefined`: a field the JSON body does not carry
Undefined == "undefined"

\* truthiness of a string-or-undefined value, as `!v`, `a || b` read it
Truthy(v) == v # Undefined /\ v # ""

\* a || b
OrElse(a, b) == IF Truthy(a) THEN a ELSE b

\* a JavaScript number: NaN or an integer value
NaN == [nan |-> TRUE, val |-> 0]
Num(n) == [nan |-> FALSE, val |-> n]

\* Number(s) on the amount strings of the model
NumberOf(s) ==
  CASE s = "25000000" -> Num(25000000)
    [] s = "1"        -> Num(1)
    [] s = "0"        -> Num(0)
    [] s = ""         -> Num(0)
    [] OTHER          -> NaN

(***************************************************************************)
(* Delays.  `delay * 1.2` leaves the integers, so a delay is kept as the   *)
(* exact fraction num/den in lowest terms.  The program computes in        *)
(* doubles, whose rounding error (relative 2^-53) changes none of the      *)
(* comparisons below for the delays of the model.                          *)
(***************************************************************************)
RECURSIVE GCD(_, _)
GCD(a, b) == IF b = 0 THEN a ELSE GCD(b, a % b)

Rat(n) == [num |-> n, den |-> 1]
Reduce(n, d) ==
  LET g == GCD(n, d) IN
  IF g = 0 THEN [num |-> 0, den |-> 1] ELSE [num |-> n \div g, den |-> d \div g]
RatTimes(a, b) == Reduce(a.num * b.num, a.den * b.den)
\* both fractions over their least common denominator
OverCommon(a, b) ==
  LET l == (a.den \div GCD(a.den, b.den)) * b.den IN
  <<a.num * (l \div a.den), b.num * (l \div b.den)>>
RatLeq(a, b) == OverCommon(a, b)[1] <= OverCommon(a, b)[2]
RatLess(a, b) == OverCommon(a, b)[1] < OverCommon(a, b)[2]
\* Math.min(a, b)
MathMin(a, b) == IF RatLeq(a, b) THEN a ELSE b

(***************************************************************************)
(* Configuration and the wallet (module-level constants of the program).   *)
(***************************************************************************)
UNREEL_API_URL == "https://x402.unreel.ai"
DefaultTenant == "unreel-ai"
SettleNetwork == "solana:5eykt4UsFv8P8NJdTREpY1vzqKqZKvdp"
SettleResource == UNREEL_API_URL \o "/api/generate-x402"
X402Version == 2
\* wallet.publicKey
wallet == "Wallet"
TOKEN_PROGRAM_ID == "TokenProgram"

(***************************************************************************)
(* Addresses.  new PublicKey(a) throws unless `a` is a base58 string of    *)
(* 32 bytes; it throws on undefined too.  "PdaAddr" is an address that is  *)
(* no point of the curve, as a program-derived address is.                 *)
(***************************************************************************)
Malformed == "not-a-key"
OffCurve == {"PdaAddr"}
WellFormed == {"Addr1", "USDCMint", "SponsorA", "SponsorB", "KoraProgram",
               "AcctX", "AcctY", wallet} \cup OffCurve
IsPublicKey(a) == a \in WellFormed

\* the error new PublicKey(a) throws: undefined has no member to read, a
\* string is not the text of 32 bytes
PublicKeyError(a) ==
  IF a = Undefined
  THEN "TypeError: Cannot read properties of undefined (reading '_bn')"
  ELSE "Invalid public key input"

\* getAssociatedTokenAddress(mint, owner) rejects: the owner is off the curve
\* (allowOwnerOffCurve is left at false)
TokenOwnerOffCurve(owner) == owner \in OffCurve

\* getAssociatedTokenAddress(mint, owner): the token account derived from both
getAssociatedTokenAddress(mint, owner) == "ata:" \o mint \o ":" \o owner

(***************************************************************************)
(* Transactions (@solana/web3.js Transaction as the code uses it).         *)
(***************************************************************************)
\* new Transaction()
NewTransaction ==
  [recentBlockhash |-> Undefined, feePayer |-> Undefined,
   instructions |-> <<>>, signatures |-> {}]

\* transaction.add(ix): appends to the instruction list
Add(tx, ix) == [tx EXCEPT !.instructions = Append(@, ix)]

\* createTransferInstruction(source, destination, owner, amount, [], TOKEN_PROGRAM_ID):
\* instruction 3 (Transfer) of the token program with the amount as u64
createTransferInstruction(source, destination, owner, amount) ==
  [programId |-> TOKEN_PROGRAM_ID,
   keys |-> << [pubkey |-> source,      isSigner |-> FALSE, isWritable |-> TRUE],
               [pubkey |-> destination, isSigner |-> FALSE, isWritable |-> TRUE],
               [pubkey |-> owner,       isSigner |-> TRUE,  isWritable |-> FALSE] >>,
   data |-> <<3, amount>>]

\* the accounts that must sign a transaction: the fee payer and every signer key
RequiredSigners(tx) ==
  {tx.feePayer} \cup
  UNION { {tx.instructions[i].keys[j].pubkey :
             j \in {k \in DOMAIN tx.instructions[i].keys :
                      tx.instructions[i].keys[k].isSigner}} :
          i \in DOMAIN tx.instructions }

\* transaction.partialSign(signer): fills the signer's signature slot
PartialSign(tx, signer) == [tx EXCEPT !.signatures = @ \cup {signer}]

\* transaction.serialize({requireAllSignatures: false}).toString("base64"):
\* the message and one signature slot per required signer, empty when unsigned
Serialize(tx) ==
  [message |-> [feePayer |-> tx.feePayer,
                recentBlockhash |-> tx.recentBlockhash,
                instructions |-> tx.instructions],
   signatures |-> [s \in RequiredSigners(tx) |-> s \in tx.signatures]]

(***************************************************************************)
(* The relay instruction (PaymentInstruction) and its translation.         *)
(* The JSON value of `data` is a record: shape "array" (items), "wrapped"  *)
(* ({data: items}), "map" (keyed: index -> byte), "null", or "scalar".     *)
(***************************************************************************)
\* Object.values(o) of an integer-keyed object: its values by ascending key
RECURSIVE ObjectValues(_)
ObjectValues(o) ==
  IF DOMAIN o = {} THEN <<>>
  ELSE LET k == CHOOSE x \in DOMAIN o : \A y \in DOMAIN o : x <= y
       IN  <<o[k]>> \o ObjectValues([j \in DOMAIN o \ {k} |-> o[j]])

\* Buffer.from(array): every element reduced to a byte
BufferFrom(items) == [i \in 1..Len(items) |-> items[i] % 256]

\* the branch of the data parse that throws: Object.values(null)
DataThrows(data) == data.shape = "null"

\* mutant: a wrapped payload is unwrapped only when it is not empty, as
\* `data?.data?.length` would; {data: []} then goes through Object.values
DataBuffer_WrappedLength(data) ==
  IF data.shape = "array" THEN BufferFrom(data.items)
  ELSE IF data.shape = "wrapped" /\ Len(data.items) > 0 THEN BufferFrom(data.items)
  ELSE IF data.shape = "wrapped" THEN <<0>>
  ELSE IF data.shape = "map" THEN BufferFrom(ObjectValues(data.keyed))
  ELSE BufferFrom(<<>>)

\* dataBuffer of the Kora instruction
DataBuffer(data) ==
  IF data.shape = "array" THEN BufferFrom(data.items)
  ELSE IF data.shape = "wrapped" THEN BufferFrom(data.items)
  ELSE IF data.shape = "map" THEN BufferFrom(ObjectValues(data.keyed))
  ELSE BufferFrom(<<>>)

\* mutant: the two flags exchanged
RoleFlags_Swapped(role) ==
  [isSigner |-> (role = 1 \/ role = 3), isWritable |-> (role = 2 \/ role = 3)]

\* the (isSigner, isWritable) pair of an account role
RoleFlags(role) ==
  [isSigner |-> (role = 2 \/ role = 3), isWritable |-> (role = 1 \/ role = 3)]

\* keys of the Kora instruction: accounts.map(...)
KoraKeys(accounts) ==
  [i \in 1..Len(accounts) |->
     [pubkey |-> accounts[i].address,
      isSigner |-> RoleFlags(accounts[i].role).isSigner,
      isWritable |-> RoleFlags(accounts[i].role).isWritable]]

\* new TransactionInstruction({keys, programId, data})
KoraInstruction(pi) ==
  [programId |-> pi.programAddress,
   keys |-> KoraKeys(pi.accounts),
   data |-> DataBuffer(pi.data)]

\* a new PublicKey(...) or the data parse of the rebuild throws
KoraThrows(pi) ==
  \/ DataThrows(pi.data)
  \/ \E i \in 1..Len(pi.accounts) : ~IsPublicKey(pi.accounts[i].address)
  \/ ~IsPublicKey(pi.programAddress)

\* the error of that throw: the data parse (lines 150-158) comes before the
\* account keys (line 162) and the program address (line 166)
KoraError(pi) ==
  IF DataThrows(pi.data) THEN "TypeError: Cannot convert undefined or null to object"
  ELSE PublicKeyError(Malformed)

(***************************************************************************)
(* handlePayment: its local variables form the frame `f`, a record; its    *)
(* field `completion` is the state of the promise handlePayment returned.  *)
(***************************************************************************)
NoInstruction ==
  [programAddress |-> Undefined, accounts |-> <<>>,
   data |-> [shape |-> "scalar", items |-> <<>>, keyed |-> <<>>]]

NoRequirements ==
  [network |-> Undefined, payTo |-> Undefined, asset |-> Undefined,
   maxAmountRequired |-> Undefined, tenant |-> Undefined]

\* the frame on entry, before line 70 has run
NewFrame ==
  [requirements |-> NoRequirements, tenantId |-> Undefined, amount |-> NaN,
   feePayerAddress |-> Undefined, senderUsdcAccount |-> Undefined,
   recipientUsdcAccount |-> Undefined, blockhash |-> Undefined,
   baseTx |-> Serialize(NewTransaction), paymentInstruction |-> NoInstruction,
   signerAddress |-> Undefined, transaction |-> NewTransaction,
   signedTx |-> Serialize(NewTransaction),
   completion |-> [kind |-> "pending", value |-> Undefined]]

\* lines 70-74: tenant, recipient, mint and amount of the challenge
EnterFrame(requirements) ==
  [NewFrame EXCEPT !.requirements = requirements,
                   !.tenantId = OrElse(requirements.tenant, DefaultTenant),
                   !.amount = NumberOf(requirements.maxAmountRequired)]

\* mutant: the base transaction is signed before it is sent to the relay
BaseTransaction_Signed(f) ==
  PartialSign(Add([NewTransaction EXCEPT !.recentBlockhash = f.blockhash,
                                         !.feePayer = f.feePayerAddress],
                  createTransferInstruction(f.senderUsdcAccount, f.recipientUsdcAccount,
                                            wallet, f.amount.val)),
              wallet)

\* lines 93-94, and again lines 132-133: a new transaction with the blockhash
AnchoredTransaction(f) == [NewTransaction EXCEPT !.recentBlockhash = f.blockhash]

\* lines 93-95: the new transaction with the sponsor as fee payer, before the
\* transfer is added
SponsoredTransaction(f) == [AnchoredTransaction(f) EXCEPT !.feePayer = f.feePayerAddress]

\* lines 132-146: the rebuilt transaction with the transfer, before the Kora
\* instruction is added
RebuiltTransfer(f) ==
  Add([AnchoredTransaction(f) EXCEPT !.feePayer = f.signerAddress],
      createTransferInstruction(f.senderUsdcAccount, f.recipientUsdcAccount,
                                wallet, f.amount.val))

\* step 2 (lines 93-106): the base transaction, fee payer = the advertised sponsor
BaseTransaction(f) ==
  Add([NewTransaction EXCEPT !.recentBlockhash = f.blockhash,
                             !.feePayer = f.feePayerAddress],
      createTransferInstruction(f.senderUsdcAccount, f.recipientUsdcAccount,
                                wallet, f.amount.val))

\* mutant: the Kora instruction is added before the transfer
FinalTransaction_KoraFirst(f) ==
  Add(Add([NewTransaction EXCEPT !.recentBlockhash = f.blockhash,
                                 !.feePayer = f.signerAddress],
          KoraInstruction(f.paymentInstruction)),
      createTransferInstruction(f.senderUsdcAccount, f.recipientUsdcAccount,
                                wallet, f.amount.val))

\* mutant: the rebuilt transfer has source and destination exchanged
FinalTransaction_SwappedAccounts(f) ==
  Add(Add([NewTransaction EXCEPT !.recentBlockhash = f.blockhash,
                                 !.feePayer = f.signerAddress],
          createTransferInstruction(f.recipientUsdcAccount, f.senderUsdcAccount,
                                    wallet, f.amount.val)),
      KoraInstruction(f.paymentInstruction))

\* mutant: the rebuilt transaction keeps the sponsor of step 1 as fee payer
FinalTransaction_SponsorFeePayer(f) ==
  Add(Add([NewTransaction EXCEPT !.recentBlockhash = f.blockhash,
                                 !.feePayer = f.feePayerAddress],
          createTransferInstruction(f.senderUsdcAccount, f.recipientUsdcAccount,
                                    wallet, f.amount.val)),
      KoraInstruction(f.paymentInstruction))

\* step 4 (lines 132-170): the rebuilt transaction, fee payer = signer_address,
\* the transfer first and the Kora instruction after it
FinalTransaction(f) ==
  Add(Add([NewTransaction EXCEPT !.recentBlockhash = f.blockhash,
                                 !.feePayer = f.signerAddress],
          createTransferInstruction(f.senderUsdcAccount, f.recipientUsdcAccount,
                                    wallet, f.amount.val)),
      KoraInstruction(f.paymentInstruction))

\* body of the payment-instruction request (lines 114-118)
InstructionRequest(f) ==
  [transaction |-> f.baseTx,
   feeToken |-> f.requirements.asset,
   sourceWallet |-> wallet]

\* body of the settle request (lines 179-196)
SettleRequest(f) ==
  [paymentPayload |->
     [x402Version |-> X402Version, scheme |-> "exact", network |-> SettleNetwork,
      payload |-> [transaction |-> f.signedTx]],
   paymentRequirements |->
     [x402Version |-> X402Version, scheme |-> "exact", network |-> SettleNetwork,
      maxAmountRequired |-> f.requirements.maxAmountRequired,
      resource |-> SettleResource,
      payTo |-> f.requirements.payTo,
      asset |-> f.requirements.asset,
      extra |-> [feePayer |-> f.signerAddress]]]

\* mutant: only an explicit `success: false` counts as a failure
Settled_UnlessFalse(settleData) == ~(settleData.has_success /\ ~settleData.success)

\* settleData.success is truthy (line 201): the flag is present and true
Settled(settleData) == settleData.has_success /\ settleData.success

\* the message of the settlement error (line 202)
SettleErrorMessage(settleData) ==
  "Settlement failed: " \o
     OrElse(settleData.errorReason, OrElse(settleData.error, "Unknown error"))

\* mutant: the relay's message is dropped from the error
InstructionErrorMessage_Generic(data) ==
  "Failed to get payment instruction: " \o "No instruction returned"

\* the message of the instruction error (line 124)
InstructionErrorMessage(data) ==
  "Failed to get payment instruction: " \o OrElse(data.error, "No instruction returned")

(***************************************************************************)
(* makePaidRequest.                                                        *)
(***************************************************************************)
\* mutant: every status below 400 counts as ok
IsOk_Below400(status) == status >= 200 /\ status < 400

\* response.ok: status in the range 200-299
IsOk(status) == status >= 200 /\ status <= 299

\* mutant: the last offered entry is used
FirstAccepted_Last(paymentRequired) ==
  paymentRequired.accepts[Len(paymentRequired.accepts)]

\* requirements = paymentRequired.accepts[0] (line 231)
FirstAccepted(paymentRequired) == paymentRequired.accepts[1]

\* mutant: the proof names the network of the settle request
PaymentHeader_SettleNetwork(requirements, txSignature) ==
  [x402Version |-> X402Version, scheme |-> "exact",
   network |-> SettleNetwork,
   payload |-> [transaction |-> txSignature]]

\* the X-PAYMENT header of the replay (lines 239-250): base64 of the JSON text
\* of paymentPayload
PaymentHeader(requirements, txSignature) ==
  [x402Version |-> X402Version, scheme |-> "exact",
   network |-> requirements.network,
   payload |-> [transaction |-> txSignature]]

(***************************************************************************)
(* What the collaborators may answer.                                      *)
(***************************************************************************)
\* fetch(...) rejects: there is no response
FetchFailed == [failed |-> TRUE]

\* a response of the relay whose body json() rejects: `kind` is "text" (a
\* text that is no JSON), "none" (an empty body) or "broken" (the stream of
\* the body breaks off)
Unreadable(kind) == [failed |-> FALSE, parsed |-> FALSE, kind |-> kind]

\* the responses of the relay whose body json() rejects
Unreadables == {Unreadable(kind) : kind \in {"text", "none", "broken"}}

\* json() of the response has resolved
Parsed(res) == ~res.failed /\ res.parsed

\* the arguments of a call
Requests ==
  { [endpoint |-> "/api/generate-x402", body |-> "script-A"],
    [endpoint |-> "/api/other", body |-> "script-B"] }

\* PaymentRequirements entries of a 402 body
Challenges ==
  [network : {SettleNetwork, "solana-devnet"},
   payTo : {"Addr1", "PdaAddr", Malformed},
   asset : {"USDCMint", Malformed},
   maxAmountRequired : {"25000000", "0", "abc"},
   tenant : {Undefined, "tenant-7"}]

\* an entry an `accepts` array may carry after its first one
LaterChallenges ==
  { [network |-> "solana-devnet", payTo |-> "AcctX", asset |-> "AcctY",
     maxAmountRequired |-> "1", tenant |-> "tenant-9"] }

\* sequences over S of length at most n
RECURSIVE SeqUpTo(_, _)
SeqUpTo(S, n) ==
  IF n = 0 THEN {<<>>}
  ELSE LET shorter == SeqUpTo(S, n - 1)
       IN  shorter \cup {Append(q, x) : q \in shorter, x \in S}

AcceptLists(firsts) ==
  {<<>>} \cup
  IF MaxAccepts = 0 THEN {}
  ELSE {<<c>> \o tail : c \in firsts, tail \in SeqUpTo(LaterChallenges, MaxAccepts - 1)}

(***************************************************************************)
(* The body of a response of the paid API.  `kind` says what the server    *)
(* sent: "json" (a JSON object with the members accepts, job_id, error     *)
(* that are present), "text" (the text in `text`, which is no JSON),       *)
(* "none" (a null body, as a 204 or a 304 has) or "broken" (the stream     *)
(* breaks off while the body is read).                                     *)
(***************************************************************************)
ApiResponse(status, kind, text, has_accepts, accepts, job_id, error) ==
  [failed |-> FALSE, status |-> status, kind |-> kind, text |-> text,
   has_accepts |-> has_accepts, accepts |-> accepts, job_id |-> job_id,
   error |-> error]

JsonAccepts(status, accepts) ==
  ApiResponse(status, "json", "", TRUE, accepts, Undefined, Undefined)
JsonJob(status, job_id) ==
  ApiResponse(status, "json", "", FALSE, <<>>, job_id, Undefined)
JsonError(status, error) ==
  ApiResponse(status, "json", "", FALSE, <<>>, Undefined, error)
TextBody(status, text) ==
  ApiResponse(status, "text", text, FALSE, <<>>, Undefined, Undefined)
NullBody(status) ==
  ApiResponse(status, "none", "", FALSE, <<>>, Undefined, Undefined)
BrokenBody(status) ==
  ApiResponse(status, "broken", "", FALSE, <<>>, Undefined, Undefined)

\* the JSON text of one entry of accepts
ChallengeText(c) ==
  "{\"network\":\"" \o c.network \o "\",\"payTo\":\"" \o c.payTo
    \o "\",\"asset\":\"" \o c.asset
    \o "\",\"maxAmountRequired\":\"" \o c.maxAmountRequired \o "\""
    \o (IF c.tenant = Undefined THEN ""
        ELSE ",\"extra\":{\"x402_tenant_id\":\"" \o c.tenant \o "\"}")
    \o "}"

\* the JSON text of an accepts array
RECURSIVE AcceptsText(_)
AcceptsText(accepts) ==
  IF Len(accepts) = 0 THEN ""
  ELSE ChallengeText(Head(accepts))
         \o (IF Len(accepts) = 1 THEN "" ELSE ",")
         \o AcceptsText(Tail(accepts))

\* the JSON text of a JSON body
JsonText(res) ==
  IF res.has_accepts THEN "{\"accepts\":[" \o AcceptsText(res.accepts) \o "]}"
  ELSE IF res.job_id # Undefined THEN "{\"job_id\":\"" \o res.job_id \o "\"}"
  ELSE IF res.error # Undefined THEN "{\"error\":\"" \o res.error \o "\"}"
  ELSE "{}"

\* response.text() rejects
TextRejects(res) == res.kind = "broken"

\* what response.text() resolves with: the body as it was sent
ResponseText(res) ==
  IF res.kind = "json" THEN JsonText(res)
  ELSE IF res.kind = "text" THEN res.text
  ELSE ""

\* response.json() rejects
JsonRejects(res) == res.kind # "json"

\* the error response.json() rejects with
JsonRejection(res) ==
  IF res.kind = "broken" THEN "TypeError: terminated"
  ELSE IF res.kind = "none" THEN "SyntaxError: Unexpected end of JSON input"
  ELSE "SyntaxError: Unexpected token"

\* what response.json() resolves with: the members of the JSON object
ResponseJson(res) ==
  [has_accepts |-> res.has_accepts, accepts |-> res.accepts,
   job_id |-> res.job_id, error |-> res.error]

\* responses of the paid API to the first request and to the replay
ApiResponses(firsts) ==
  {FetchFailed}
  \cup {JsonAccepts(402, a) : a \in AcceptLists(firsts)}
  \cup {JsonError(402, "payment required"), TextBody(402, "payment required")}
  \cup {JsonJob(st, j) : st \in {200, 202}, j \in {"job-1", "job-2"}}
  \cup {TextBody(200, "accepted"), NullBody(204), NullBody(304)}
  \cup {TextBody(500, "server error"), JsonError(500, "internal error")}
  \cup {BrokenBody(st) : st \in {200, 402, 500}}

\* responses of the discovery endpoint: kinds[0].extra.feePayer
SupportedResponses ==
  {FetchFailed} \cup Unreadables
  \cup {[failed |-> FALSE, parsed |-> TRUE, feePayer |-> x] :
          x \in {Undefined, "", "SponsorA", "SponsorB", Malformed}}

\* responses of connection.getLatestBlockhash()
BlockhashResponses ==
  {FetchFailed} \cup {[failed |-> FALSE, blockhash |-> b] : b \in {"bh-1", "bh-2"}}

Arr(items) == [shape |-> "array", items |-> items, keyed |-> <<>>]
Wrapped(items) == [shape |-> "wrapped", items |-> items, keyed |-> <<>>]
Keyed(items) ==
  [shape |-> "map", items |-> <<>>, keyed |-> [k \in 0..(Len(items) - 1) |-> items[k + 1]]]
NullData == [shape |-> "null", items |-> <<>>, keyed |-> <<>>]

\* a few relay instructions, two of them usable
NarrowInstructions ==
  { [programAddress |-> "KoraProgram",
     accounts |-> << [address |-> "AcctX", role |-> 3], [address |-> "AcctY", role |-> 1] >>,
     data |-> Arr(<<7, 255>>)],
    [programAddress |-> "KoraProgram",
     accounts |-> << [address |-> "AcctY", role |-> 0], [address |-> "SponsorB", role |-> 2] >>,
     data |-> Keyed(<<9>>)],
    [programAddress |-> Malformed,
     accounts |-> << [address |-> "AcctX", role |-> 1] >>,
     data |-> Wrapped(<<1>>)],
    [programAddress |-> "KoraProgram",
     accounts |-> << [address |-> Malformed, role |-> 1] >>,
     data |-> Arr(<<>>)],
    [programAddress |-> "KoraProgram",
     accounts |-> <<>>,
     data |-> NullData] }

\* every account list up to MaxAccounts over two addresses and the roles 0..4
WideInstructions ==
  [programAddress : {"KoraProgram"},
   accounts : SeqUpTo([address : {"AcctX", "AcctY"}, role : 0..4], MaxAccounts),
   data : {Arr(<<7, 255>>), Wrapped(<<>>), Keyed(<<9, 0>>)}]

\* responses of the payment-instruction endpoint
InstructionResponses(instructions, signers) ==
  {FetchFailed} \cup Unreadables
  \cup {[failed |-> FALSE, parsed |-> TRUE, error |-> e, has_instruction |-> TRUE,
         payment_instruction |-> pi, signer_address |-> sa] :
          e \in {Undefined, "no funds"}, pi \in instructions, sa \in signers}
  \cup {[failed |-> FALSE, parsed |-> TRUE, error |-> e, has_instruction |-> FALSE,
         payment_instruction |-> NoInstruction, signer_address |-> sa] :
          e \in {Undefined, "no funds"}, sa \in {Undefined, "SponsorB"}}

\* responses of the settle endpoint
SettleResponses ==
  {FetchFailed} \cup Unreadables
  \cup {[failed |-> FALSE, parsed |-> TRUE, has_success |-> TRUE, success |-> TRUE,
         transaction |-> t, errorReason |-> Undefined, error |-> Undefined] :
          t \in {Undefined, "sig-1", "sig-2"}}
  \cup {[failed |-> FALSE, parsed |-> TRUE, has_success |-> hs, success |-> FALSE,
         transaction |-> t, errorReason |-> r, error |-> e] :
          hs \in BOOLEAN, t \in {Undefined, "sig-1"},
          r \in {Undefined, "insufficient funds"}, e \in {Undefined, "relay down"}}

(***************************************************************************)
(* State.                                                                  *)
(***************************************************************************)
VARIABLES
  pc,           \* the await the current call is suspended on, "idle" or "done"
  ncalls,       \* calls of makePaidRequest started so far
  call,         \* makePaidRequest's arguments: [endpoint, body]
  f,            \* handlePayment's local variables
  txSignature,  \* makePaidRequest's txSignature: what handlePayment returned
  outcome,      \* how the call ended: [kind, value]
  net,          \* the requests the call issued and the responses it got, in order
  ppc,          \* pollJobStatus: "idle", the await it is suspended on, or "done"
  poller,       \* pollJobStatus's arguments and local variables
  plog,         \* what pollJobStatus did, in order: fetches, responses, waits
  poutcome,     \* how pollJobStatus ended: [kind, value]
  parse,        \* a relay payload and the data of the instruction built from it
  parked        \* the other call of makePaidRequest: its pc, call, f,
                \* txSignature, outcome and net while it is not the one running

payVars == <<pc, ncalls, call, f, txSignature, outcome, net>>
pollVars == <<ppc, poller, plog, poutcome>>
dataVars == <<parse>>
vars == <<pc, ncalls, call, f, txSignature, outcome, net,
          ppc, poller, plog, poutcome, parse, parked>>

Pending == [kind |-> "pending", value |-> Undefined]

\* an entry of net: a request to a service, or the response to it
Req(svc, url, payload) == [dir |-> "req", svc |-> svc, url |-> url, payload |-> payload]
Res(svc, res) == [dir |-> "res", svc |-> svc, url |-> "", payload |-> res]

\* before makePaidRequest is called
InitPay ==
  /\ pc = "idle"
  /\ ncalls = 0
  /\ call = [endpoint |-> Undefined, body |-> Undefined]
  /\ f = NewFrame
  /\ txSignature = Undefined
  /\ outcome = Pending
  /\ net = <<>>

\* before pollJobStatus is called
NewPoller ==
  [variant |-> Undefined, jobId |-> Undefined, maxAttempts |-> 0,
   initialDelay |-> Rat(0), attempt |-> 0, delay |-> Rat(0)]

\* a job as pollJobStatus reads it: its status and its error text
NoJob == [status |-> Undefined, error |-> Undefined]
PollPending == [kind |-> "pending", message |-> "", job |-> NoJob]

InitPoll ==
  /\ ppc = "idle"
  /\ poller = NewPoller
  /\ plog = <<>>
  /\ poutcome = PollPending

\* no relay payload has been parsed
NoParse == [bytes |-> <<>>, data |-> Arr(<<>>), done |-> FALSE, buffer |-> <<>>]

\* a call of makePaidRequest that has not begun
NoCall ==
  [pc |-> "idle", call |-> [endpoint |-> Undefined, body |-> Undefined],
   f |-> NewFrame, txSignature |-> Undefined, outcome |-> Pending, net |-> <<>>]

Init ==
  /\ InitPay
  /\ InitPoll
  /\ parse = NoParse
  /\ parked = NoCall

\* makePaidRequest rejects: throw new Error(msg), or a rejected await
Throw(msg, net1, f1) ==
  /\ outcome' = [kind |-> "thrown", value |-> msg]
  /\ pc' = "done"
  /\ net' = net1
  /\ f' = f1
  /\ UNCHANGED <<ncalls, call, txSignature>>
  /\ UNCHANGED <<pollVars, dataVars, parked>>

\* makePaidRequest resolves with the JSON body of a response
Return(value, net1) ==
  /\ outcome' = [kind |-> "returned", value |-> value]
  /\ pc' = "done"
  /\ net' = net1
  /\ UNCHANGED <<ncalls, call, f, txSignature>>
  /\ UNCHANGED <<pollVars, dataVars, parked>>

\* the call is suspended on the await `label`, without a new request
Suspend(label, net1, f1) ==
  /\ pc' = label
  /\ net' = net1
  /\ f' = f1
  /\ UNCHANGED <<ncalls, call, txSignature, outcome>>
  /\ UNCHANGED <<pollVars, dataVars, parked>>

\* the call goes on to the await of a fetch, having issued the request `req`
Await(label, req, net1, f1) == Suspend(label, Append(net1, req), f1)

\* handlePayment rejects (a throw, or a rejected await, inside it):
\* makePaidRequest stays suspended on `await handlePayment(...)`, line 236
Reject(msg, net1, f1) ==
  Suspend("handled", net1,
          [f1 EXCEPT !.completion = [kind |-> "thrown", value |-> msg]])

\* handlePayment resolves with `value` (line 206)
Resolve(value, net1, f1) ==
  Suspend("handled", net1,
          [f1 EXCEPT !.completion = [kind |-> "returned", value |-> value]])

\* the response the call is reading the body of
Last == net[Len(net)].payload

\* makePaidRequest(endpoint, body), lines 212-218: the first request
MakePaidRequest(args) ==
  /\ pc \in {"idle", "done"}
  /\ ncalls < MaxCalls
  /\ ncalls' = ncalls + 1
  /\ call' = args
  /\ f' = NewFrame
  /\ txSignature' = Undefined
  /\ outcome' = Pending
  /\ pc' = "initial"
  /\ net' = << Req("api", args.endpoint, [body |-> args.body, xPayment |-> <<>>]) >>
  /\ UNCHANGED <<pollVars, dataVars, parked>>

\* line 214 resumes: the first fetch has settled; lines 220-230 up to the
\* read of the body (text() at 223, json() at 226 or at 230)
InitialResponse(res) ==
  /\ pc = "initial"
  /\ LET net1 == Append(net, Res("api", res)) IN
     IF res.failed THEN Throw("fetch failed", net1, f)
     ELSE Suspend("initial-body", net1, f)

\* the read of the first response's body has settled: lines 223-226, or
\* lines 230-236 and, inside handlePayment, lines 69-79
InitialBody ==
  /\ pc = "initial-body"
  /\ IF Last.status # 402 THEN
       IF ~IsOk(Last.status)
       THEN IF TextRejects(Last) THEN Throw("TypeError: terminated", net, f)
            ELSE Throw("API error (" \o ToString(Last.status) \o "): "
                         \o ResponseText(Last), net, f)
       ELSE IF JsonRejects(Last) THEN Throw(JsonRejection(Last), net, f)
            ELSE Return(ResponseJson(Last), net)
     ELSE IF JsonRejects(Last) THEN Throw(JsonRejection(Last), net, f)
     ELSE IF ~Last.has_accepts
       THEN Throw("TypeError: Cannot read properties of undefined (reading '0')", net, f)
     ELSE IF Len(Last.accepts) = 0
       THEN Throw("TypeError: Cannot read properties of undefined (reading 'maxAmountRequired')",
                  net, f)
     ELSE LET f1 == EnterFrame(FirstAccepted(Last)) IN
       IF ~IsPublicKey(f1.requirements.payTo) \/ ~IsPublicKey(f1.requirements.asset)
       THEN Reject(PublicKeyError(IF IsPublicKey(f1.requirements.payTo)
                                  THEN f1.requirements.asset
                                  ELSE f1.requirements.payTo), net, f1)
       ELSE Await("supported", Req("supported", "/supported/" \o f1.tenantId, [none |-> TRUE]),
                  net, f1)

\* line 79 resumes: the discovery fetch has settled; line 80 reads the body
SupportedResponse(res) ==
  /\ pc = "supported"
  /\ LET net1 == Append(net, Res("supported", res)) IN
     IF res.failed THEN Reject("fetch failed", net1, f)
     ELSE Suspend("supported-json", net1, f)

\* mutant: a discovery response without a fee payer is asked for again
SupportedBody_Retry ==
  /\ pc = "supported-json"
  /\ IF ~Last.parsed THEN Reject(JsonRejection(Last), net, f)
     ELSE IF ~Truthy(Last.feePayer)
       THEN Await("supported", Req("supported", "/supported/" \o f.tenantId, [none |-> TRUE]),
                  net, f)
     ELSE Suspend("sender-account", net, [f EXCEPT !.feePayerAddress = Last.feePayer])

\* mutant: the fee payer of the discovery response is not looked at
SupportedBody_NoCheck ==
  /\ pc = "supported-json"
  /\ IF ~Last.parsed THEN Reject(JsonRejection(Last), net, f)
     ELSE Suspend("sender-account", net, [f EXCEPT !.feePayerAddress = Last.feePayer])

\* mutant: a sponsor resolved by the previous call is used again
SupportedBody_CachedSponsor ==
  /\ pc = "supported-json"
  /\ IF ~Last.parsed THEN Reject(JsonRejection(Last), net, f)
     ELSE IF ~Truthy(Last.feePayer)
       THEN Reject("Failed to get fee payer from x402 service", net, f)
     ELSE Suspend("sender-account", net,
                  [f EXCEPT !.feePayerAddress =
                              OrElse(parked.f.feePayerAddress, Last.feePayer)])

\* line 80 resumes: json() of the discovery response has settled; lines
\* 82-89, up to the await of the sender's token account
SupportedBody ==
  /\ pc = "supported-json"
  /\ IF ~Last.parsed THEN Reject(JsonRejection(Last), net, f)
     ELSE IF ~Truthy(Last.feePayer)
       THEN Reject("Failed to get fee payer from x402 service", net, f)
     ELSE Suspend("sender-account", net, [f EXCEPT !.feePayerAddress = Last.feePayer])

\* line 89 resumes with the sender's token account, or with the rejection
\* for an owner off the curve (the wallet's key never is); line 90 awaits
\* the recipient's
SenderAccount ==
  /\ pc = "sender-account"
  /\ IF TokenOwnerOffCurve(wallet) THEN Reject("TokenOwnerOffCurveError", net, f)
     ELSE Suspend("recipient-account", net,
                  [f EXCEPT !.senderUsdcAccount =
                              getAssociatedTokenAddress(f.requirements.asset, wallet)])

\* line 90 resumes with the recipient's token account, or with the rejection
\* for a recipient off the curve; line 91 asks for the latest blockhash
RecipientAccount ==
  /\ pc = "recipient-account"
  /\ IF TokenOwnerOffCurve(f.requirements.payTo)
     THEN Reject("TokenOwnerOffCurveError", net, f)
     ELSE Await("blockhash", Req("rpc", "getLatestBlockhash", [none |-> TRUE]), net,
                [f EXCEPT !.recipientUsdcAccount =
                            getAssociatedTokenAddress(f.requirements.asset,
                                                      f.requirements.payTo)])

\* mutant: the anchor is kept in a variable the calls share, so a call uses
\* the anchor the other call fetched when there is one
BlockhashResponse_SharedAnchor(res) ==
  /\ pc = "blockhash"
  /\ LET net1 == Append(net, Res("rpc", res)) IN
     IF res.failed THEN Reject("fetch failed", net1, f)
     ELSE LET f1 == [f EXCEPT !.blockhash = OrElse(parked.f.blockhash, res.blockhash)] IN
       IF ~IsPublicKey(f1.feePayerAddress)
       THEN Reject(PublicKeyError(f1.feePayerAddress), net1,
                   [f1 EXCEPT !.transaction = AnchoredTransaction(f1)])
       ELSE IF f1.amount.nan
       THEN Reject("RangeError: not an integer", net1,
                   [f1 EXCEPT !.transaction = SponsoredTransaction(f1)])
       ELSE LET f2 == [f1 EXCEPT !.transaction = BaseTransaction(f1),
                                 !.baseTx = Serialize(BaseTransaction(f1))] IN
         Await("instruction",
               Req("payment-instruction", "/payment-instruction/" \o f2.tenantId,
                   InstructionRequest(f2)),
               net1, f2)

\* line 91 resumes with the blockhash; lines 93-119: the base transaction and
\* the payment-instruction request
BlockhashResponse(res) ==
  /\ pc = "blockhash"
  /\ LET net1 == Append(net, Res("rpc", res)) IN
     IF res.failed THEN Reject("fetch failed", net1, f)
     ELSE LET f1 == [f EXCEPT !.blockhash = res.blockhash] IN
       IF ~IsPublicKey(f1.feePayerAddress)
       THEN Reject(PublicKeyError(f1.feePayerAddress), net1,
                   [f1 EXCEPT !.transaction = AnchoredTransaction(f1)])
       ELSE IF f1.amount.nan
       THEN Reject("RangeError: not an integer", net1,
                   [f1 EXCEPT !.transaction = SponsoredTransaction(f1)])
       ELSE LET f2 == [f1 EXCEPT !.transaction = BaseTransaction(f1),
                                 !.baseTx = Serialize(BaseTransaction(f1))] IN
         Await("instruction",
               Req("payment-instruction", "/payment-instruction/" \o f2.tenantId,
                   InstructionRequest(f2)),
               net1, f2)

\* line 111 resumes: the payment-instruction fetch has settled; line 121
\* reads the body
InstructionResponse(res) ==
  /\ pc = "instruction"
  /\ LET net1 == Append(net, Res("payment-instruction", res)) IN
     IF res.failed THEN Reject("fetch failed", net1, f)
     ELSE Suspend("instruction-json", net1, f)

\* mutant: without a signer_address the sponsor of step 1 pays the fee
InstructionBody_SponsorFallback ==
  /\ pc = "instruction-json"
  /\ IF ~Last.parsed THEN Reject(JsonRejection(Last), net, f)
     ELSE IF Truthy(Last.error) \/ ~Last.has_instruction
       THEN Reject(InstructionErrorMessage(Last), net, f)
     ELSE LET f1 == [f EXCEPT !.paymentInstruction = Last.payment_instruction,
                              !.signerAddress =
                                 IF Last.signer_address = Undefined
                                 THEN f.feePayerAddress ELSE Last.signer_address] IN
       IF ~IsPublicKey(f1.signerAddress)
       THEN Reject(PublicKeyError(f1.signerAddress), net,
                   [f1 EXCEPT !.transaction = AnchoredTransaction(f1)])
       ELSE IF KoraThrows(f1.paymentInstruction)
       THEN Reject(KoraError(f1.paymentInstruction), net,
                   [f1 EXCEPT !.transaction = RebuiltTransfer(f1)])
       ELSE LET signed == PartialSign(FinalTransaction(f1), wallet)
                f2 == [f1 EXCEPT !.transaction = signed,
                                 !.signedTx = Serialize(signed)] IN
         Await("settle", Req("settle", "/settle/" \o f2.tenantId, SettleRequest(f2)),
               net, f2)

\* line 121 resumes: json() of the instruction response has settled; lines
\* 123-197: the relay's instruction, the rebuilt transaction, signing, and
\* the settle request
InstructionBody ==
  /\ pc = "instruction-json"
  /\ IF ~Last.parsed THEN Reject(JsonRejection(Last), net, f)
     ELSE IF Truthy(Last.error) \/ ~Last.has_instruction
       THEN Reject(InstructionErrorMessage(Last), net, f)
     ELSE LET f1 == [f EXCEPT !.paymentInstruction = Last.payment_instruction,
                              !.signerAddress = Last.signer_address] IN
       IF ~IsPublicKey(f1.signerAddress)
       THEN Reject(PublicKeyError(f1.signerAddress), net,
                   [f1 EXCEPT !.transaction = AnchoredTransaction(f1)])
       ELSE IF KoraThrows(f1.paymentInstruction)
       THEN Reject(KoraError(f1.paymentInstruction), net,
                   [f1 EXCEPT !.transaction = RebuiltTransfer(f1)])
       ELSE LET signed == PartialSign(FinalTransaction(f1), wallet)
                f2 == [f1 EXCEPT !.transaction = signed,
                                 !.signedTx = Serialize(signed)] IN
         Await("settle", Req("settle", "/settle/" \o f2.tenantId, SettleRequest(f2)),
               net, f2)

\* line 176 resumes: the settle fetch has settled; line 199 reads the body
SettleResponse(res) ==
  /\ pc = "settle"
  /\ LET net1 == Append(net, Res("settle", res)) IN
     IF res.failed THEN Reject("fetch failed", net1, f)
     ELSE Suspend("settle-json", net1, f)

\* line 199 resumes: json() of the settle response has settled; lines
\* 201-206: handlePayment throws or returns settleData.transaction
SettleBody ==
  /\ pc = "settle-json"
  /\ IF ~Last.parsed THEN Reject(JsonRejection(Last), net, f)
     ELSE IF ~Settled(Last) THEN Reject(SettleErrorMessage(Last), net, f)
     ELSE Resolve(Last.transaction, net, f)

\* line 236 resumes: handlePayment has rejected, and makePaidRequest rejects
\* with its error, or it has returned, and lines 239-253 send the replay
\* with the payment proof
PaymentHandled ==
  /\ pc = "handled"
  /\ IF f.completion.kind = "thrown" THEN Throw(f.completion.value, net, f)
     ELSE /\ txSignature' = f.completion.value
          /\ pc' = "paid"
          /\ net' = Append(net,
                      Req("api", call.endpoint,
                          [body |-> call.body,
                           xPayment |-> <<PaymentHeader(f.requirements,
                                                        f.completion.value)>>]))
          /\ UNCHANGED <<ncalls, call, f, outcome>>
          /\ UNCHANGED <<pollVars, dataVars, parked>>

\* line 246 resumes: the replay has settled; lines 255-260 up to the read of
\* the body (text() at 256 or json() at 260)
PaidResponse(res) ==
  /\ pc = "paid"
  /\ LET net1 == Append(net, Res("api", res)) IN
     IF res.failed THEN Throw("fetch failed", net1, f)
     ELSE Suspend("paid-body", net1, f)

\* the read of the replay's body has settled: line 257 or line 260
PaidBody ==
  /\ pc = "paid-body"
  /\ IF ~IsOk(Last.status)
     THEN IF TextRejects(Last) THEN Throw("TypeError: terminated", net, f)
          ELSE Throw("Paid request failed (" \o ToString(Last.status) \o "): "
                       \o ResponseText(Last), net, f)
     ELSE IF JsonRejects(Last) THEN Throw(JsonRejection(Last), net, f)
          ELSE Return(ResponseJson(Last), net)

(***************************************************************************)
(* The next-state relation, for given sets of answers of the collaborators.*)
(***************************************************************************)
NextWith(requests, initials, supported, blockhashes, instructions, settles, paids) ==
  \/ \E args \in requests : MakePaidRequest(args)
  \/ pc = "initial" /\ \E res \in initials : InitialResponse(res)
  \/ InitialBody
  \/ pc = "supported" /\ \E res \in supported : SupportedResponse(res)
  \/ SupportedBody
  \/ SenderAccount
  \/ RecipientAccount
  \/ pc = "blockhash" /\ \E res \in blockhashes : BlockhashResponse(res)
  \/ pc = "instruction" /\ \E res \in instructions : InstructionResponse(res)
  \/ InstructionBody
  \/ pc = "settle" /\ \E res \in settles : SettleResponse(res)
  \/ SettleBody
  \/ PaymentHandled
  \/ pc = "paid" /\ \E res \in paids : PaidResponse(res)
  \/ PaidBody

(***************************************************************************)
(* Spec: the whole flow, every collaborator answering anything it may,     *)
(* the relay instruction drawn from NarrowInstructions.                    *)
(***************************************************************************)
InitialResponses == ApiResponses(Challenges)
PaidResponses == ApiResponses(LaterChallenges)
NarrowInstructionResponses ==
  InstructionResponses(NarrowInstructions,
                       {Undefined, "SponsorA", "SponsorB", Malformed})

Next ==
  NextWith(Requests, InitialResponses, SupportedResponses, BlockhashResponses,
           NarrowInstructionResponses, SettleResponses, PaidResponses)

Spec == Init /\ [][Next]_vars

(***************************************************************************)
(* SpecDraft: the same flow for one well-formed challenge, the relay       *)
(* instruction drawn from WideInstructions: every account list up to       *)
(* MaxAccounts, every role, every shape of the data.                       *)
(***************************************************************************)
DraftChallenge ==
  [network |-> SettleNetwork, payTo |-> "Addr1", asset |-> "USDCMint",
   maxAmountRequired |-> "25000000", tenant |-> Undefined]

DraftRequests == {[endpoint |-> "/api/generate-x402", body |-> "script-A"]}
DraftInitialResponses == ApiResponses({DraftChallenge})
DraftSupportedResponses ==
  {r \in SupportedResponses : Parsed(r) /\ r.feePayer = "SponsorA"}
DraftBlockhashResponses ==
  {r \in BlockhashResponses : ~r.failed /\ r.blockhash = "bh-1"}
WideInstructionResponses ==
  InstructionResponses(WideInstructions, {"SponsorA", "SponsorB"})
DraftSettleResponses ==
  {r \in SettleResponses :
     r.failed \/ (r.parsed /\ r.success /\ r.transaction = "sig-1")}
DraftPaidResponses ==
  {r \in PaidResponses : ~r.failed /\ r.status = 200 /\ r.job_id = "job-1"}

NextDraft ==
  NextWith(DraftRequests, DraftInitialResponses, DraftSupportedResponses,
           DraftBlockhashResponses, WideInstructionResponses,
           DraftSettleResponses, DraftPaidResponses)

SpecDraft == Init /\ [][NextDraft]_vars

(***************************************************************************)
(* pollJobStatus.  Two versions are in the source: src/index.ts (lines     *)
(* 266-286, on fetch) and src/unnamed/part_000 (lines 59-92, on axios,     *)
(* with a catch that names a missing job).  poller.variant says which one  *)
(* runs: "fetch" or "axios".                                               *)
(***************************************************************************)
MaxPollAttempts == 3
MaxBackoffAttempts == 12

\* Math.min(delay * 1.2, 30000)
Ceiling == 30000
Growth == [num |-> 6, den |-> 5]

\* mutant: the delay grows by half each time
NextDelay_Faster(delay) ==
  MathMin(RatTimes(delay, [num |-> 3, den |-> 2]), Rat(Ceiling))

NextDelay(delay) == MathMin(RatTimes(delay, Growth), Rat(Ceiling))

\* mutant: the loop runs while attempt <= maxAttempts
LoopContinues_Inclusive(attempt, maxAttempts) == attempt <= maxAttempts

\* while (attempt < maxAttempts)
LoopContinues(attempt, maxAttempts) == attempt < maxAttempts

\* mutant: a failed job is polled again
JobVerdict_IgnoreFailed(job) ==
  IF job.status = "completed" THEN "return" ELSE "wait"

\* what the loop body does with a job: return it, throw, or wait and go on
JobVerdict(job) ==
  IF job.status = "completed" THEN "return"
  ELSE IF job.status = "failed" THEN "throw"
  ELSE "wait"

JobFailedMessage(job) == "Job failed: " \o OrElse(job.error, "Unknown error")
JobNotFoundMessage(jobId) == "Job not found: " \o jobId
JobTimeoutMessage(maxAttempts) ==
  "Job timed out after " \o ToString(maxAttempts) \o " attempts"

\* an answer of the status endpoint: the HTTP status, the kind of the body
\* ("json", "text", "none" or "broken", as for the paid API), and the status
\* and error fields of a JSON body
StatusAnswer(failed, http, kind, status, error) ==
  [failed |-> failed, http |-> http, kind |-> kind, status |-> status, error |-> error]

\* no answer: the request is rejected without a response
NoAnswer == StatusAnswer(TRUE, 0, "none", Undefined, Undefined)

StatusResponses ==
  { NoAnswer,
    StatusAnswer(FALSE, 200, "json", "pending", Undefined),
    StatusAnswer(FALSE, 200, "json", "completed", Undefined),
    StatusAnswer(FALSE, 200, "json", "failed", Undefined),
    StatusAnswer(FALSE, 200, "json", "failed", "render crashed"),
    StatusAnswer(FALSE, 200, "json", Undefined, Undefined),
    StatusAnswer(FALSE, 200, "json", "queued", Undefined),
    StatusAnswer(FALSE, 200, "text", Undefined, Undefined),
    StatusAnswer(FALSE, 200, "none", Undefined, Undefined),
    StatusAnswer(FALSE, 200, "broken", Undefined, Undefined),
    StatusAnswer(FALSE, 404, "json", Undefined, "Job not found"),
    StatusAnswer(FALSE, 404, "text", Undefined, Undefined),
    StatusAnswer(FALSE, 500, "json", Undefined, "internal error") }

\* the job the code reads from a response: `await res.json()` in src/index.ts,
\* `response.data` in part_000 (a text, also the empty one, has no status
\* field)
JobOf(res) ==
  IF res.kind = "json" THEN [status |-> res.status, error |-> res.error] ELSE NoJob

\* the messages api.get may reject with when the body of the response breaks
\* off: the stream's own error, or the error axios puts in its place
AxiosAborted == {"aborted", "stream has been aborted"}

\* entries of plog
Fetched(url) == [ev |-> "fetch", url |-> url, res |-> NoAnswer, delay |-> Rat(0)]
Answered(res) == [ev |-> "response", url |-> "", res |-> res, delay |-> Rat(0)]
Waited(delay) == [ev |-> "wait", url |-> "", res |-> NoAnswer, delay |-> delay]

PollThrow(msg, log1) ==
  /\ ppc' = "done"
  /\ plog' = log1
  /\ poutcome' = [kind |-> "thrown", message |-> msg, job |-> NoJob]
  /\ UNCHANGED poller

PollReturn(job, log1) ==
  /\ ppc' = "done"
  /\ plog' = log1
  /\ poutcome' = [kind |-> "returned", message |-> "", job |-> job]
  /\ UNCHANGED poller

\* the head of the loop: the next fetch, or the throw after the loop
LoopHead(p1, log1) ==
  /\ poller' = p1
  /\ IF LoopContinues(p1.attempt, p1.maxAttempts)
     THEN /\ ppc' = "fetch"
          /\ plog' = Append(log1, Fetched(UNREEL_API_URL \o "/api/jobs/" \o p1.jobId))
          /\ UNCHANGED poutcome
     ELSE /\ ppc' = "done"
          /\ plog' = log1
          /\ poutcome' = [kind |-> "thrown",
                          message |-> JobTimeoutMessage(p1.maxAttempts), job |-> NoJob]

\* the if/else of the loop body and the setTimeout after it
LoopBody(job, log1) ==
  IF JobVerdict(job) = "return" THEN PollReturn(job, log1)
  ELSE IF JobVerdict(job) = "throw" THEN PollThrow(JobFailedMessage(job), log1)
  ELSE /\ ppc' = "sleep"
       /\ plog' = Append(log1, Waited(poller.delay))
       /\ UNCHANGED <<poller, poutcome>>

\* pollJobStatus(jobId, maxAttempts, initialDelay): to the first fetch
PollJobStatus(variant, jobId, maxAttempts, initialDelay) ==
  /\ ppc = "idle"
  /\ LoopHead([variant |-> variant, jobId |-> jobId, maxAttempts |-> maxAttempts,
               initialDelay |-> initialDelay, attempt |-> 0, delay |-> initialDelay],
              <<>>)
  /\ UNCHANGED <<payVars, dataVars, parked>>

\* the status fetch has settled
StatusResponse(res) ==
  /\ ppc = "fetch"
  /\ LET log1 == Append(plog, Answered(res)) IN
     IF poller.variant = "fetch"
     THEN \* src/index.ts 271-272: the HTTP status is not looked at, the body
          \* is read
          IF res.failed THEN PollThrow("fetch failed", log1)
          ELSE /\ ppc' = "json"
               /\ plog' = log1
               /\ UNCHANGED <<poller, poutcome>>
     ELSE \* part_000 69-88: axios reads the body inside api.get, and rejects
          \* on a body that breaks off and on a status outside 200-299
          IF res.failed THEN PollThrow("Network Error", log1)
          ELSE IF res.kind = "broken"
            THEN \E msg \in AxiosAborted : PollThrow(msg, log1)
          ELSE IF ~IsOk(res.http)
            THEN IF res.http = 404
                 THEN PollThrow(JobNotFoundMessage(poller.jobId), log1)
                 ELSE PollThrow("Request failed with status code " \o ToString(res.http),
                                log1)
          ELSE LoopBody(JobOf(res), log1)
  /\ UNCHANGED <<payVars, dataVars, parked>>

\* src/index.ts 272-280: json() of the status response has settled; to the
\* setTimeout or the end of the call
StatusBody ==
  /\ ppc = "json"
  /\ LET res == plog[Len(plog)].res IN
     IF JsonRejects(res) THEN PollThrow(JsonRejection(res), plog)
     ELSE LoopBody(JobOf(res), plog)
  /\ UNCHANGED <<payVars, dataVars, parked>>

\* the timer of the wait fires: the next delay, the next attempt
TimerFires ==
  /\ ppc = "sleep"
  /\ LoopHead([poller EXCEPT !.delay = NextDelay(@), !.attempt = @ + 1], plog)
  /\ UNCHANGED <<payVars, dataVars, parked>>

NextPollWith(calls, responses) ==
  \/ \E c \in calls : PollJobStatus(c.variant, c.jobId, c.maxAttempts, c.initialDelay)
  \/ ppc = "fetch" /\ \E res \in responses : StatusResponse(res)
  \/ StatusBody
  \/ TimerFires

(***************************************************************************)
(* SpecPoll: a few attempts, the status endpoint answering anything.       *)
(***************************************************************************)
PollCalls ==
  [variant : {"fetch", "axios"}, jobId : {"job-1"},
   maxAttempts : 0..MaxPollAttempts, initialDelay : {Rat(5000), Rat(40000)}]

NextPoll == NextPollWith(PollCalls, StatusResponses)

SpecPoll == Init /\ [][NextPoll]_vars

(***************************************************************************)
(* SpecBackoff: many attempts, the job pending throughout.                 *)
(***************************************************************************)
BackoffCalls ==
  [variant : {"fetch", "axios"}, jobId : {"job-1"},
   maxAttempts : 0..MaxBackoffAttempts,
   initialDelay : {Rat(0), Rat(5000), Rat(20000), Rat(30000), Rat(40000)}]

PendingResponses ==
  {r \in StatusResponses : ~r.failed /\ r.http = 200 /\ r.kind = "json" /\ r.status = "pending"}

NextBackoff == NextPollWith(BackoffCalls, PendingResponses)

SpecBackoff == Init /\ [][NextBackoff]_vars

(***************************************************************************)
(* SpecData: the data parse of handlePayment (lines 148-168) on its own,   *)
(* applied to every byte sequence up to MaxBytes in each of its three wire *)
(* shapes.                                                                 *)
(***************************************************************************)
MaxBytes == 3
ByteValues == {0, 7, 255}

Payloads ==
  UNION { { [bytes |-> b, data |-> d, done |-> FALSE, buffer |-> <<>>] :
              d \in {Arr(b), Wrapped(b), Keyed(b)} } :
          b \in SeqUpTo(ByteValues, MaxBytes) }

InitData ==
  /\ InitPay
  /\ InitPoll
  /\ parse \in Payloads
  /\ parked = NoCall

\* lines 148-168: the Kora instruction built from the payload
ParseData ==
  /\ ~parse.done
  /\ parse' = [parse EXCEPT
                 !.done = TRUE,
                 !.buffer = KoraInstruction([programAddress |-> "KoraProgram",
                                             accounts |-> <<>>,
                                             data |-> parse.data]).data]
  /\ UNCHANGED <<payVars, pollVars, parked>>

NextData == ParseData

SpecData == InitData /\ [][NextData]_vars

(***************************************************************************)
(* Two calls of makePaidRequest.  A call runs from one await to the next   *)
(* without interruption; at every await the event loop may resume the      *)
(* other call.  pc, call, f, txSignature, outcome and net belong to the    *)
(* call that runs next, `parked` holds those of the other call, and Switch *)
(* exchanges the two.                                                      *)
(***************************************************************************)
Running ==
  [pc |-> pc, call |-> call, f |-> f, txSignature |-> txSignature,
   outcome |-> outcome, net |-> net]

Switch ==
  /\ parked' = Running
  /\ pc' = parked.pc
  /\ call' = parked.call
  /\ f' = parked.f
  /\ txSignature' = parked.txSignature
  /\ outcome' = parked.outcome
  /\ net' = parked.net
  /\ UNCHANGED <<ncalls, pollVars, dataVars>>

\* answers for two well-formed challenges, two sponsors, two anchors, two
\* relay signers; the relay may refuse and the settlement may fail
PairChallenges == {DraftChallenge} \cup LaterChallenges
PairInitialResponses ==
  {r \in ApiResponses(PairChallenges) :
     ~r.failed /\ r.status = 402 /\ Len(r.accepts) = 1}
PairSupportedResponses ==
  {r \in SupportedResponses : Parsed(r) /\ r.feePayer \in {"SponsorA", "SponsorB"}}
PairBlockhashResponses == {r \in BlockhashResponses : ~r.failed}
PairInstructionResponses ==
  {r \in NarrowInstructionResponses :
     /\ Parsed(r)
     /\ r.has_instruction
     /\ r.payment_instruction.programAddress = "KoraProgram"
     /\ r.payment_instruction.data = Arr(<<7, 255>>)
     /\ r.signer_address \in {"SponsorA", "SponsorB"}}

NextPair ==
  NextWith(Requests, PairInitialResponses, PairSupportedResponses,
           PairBlockhashResponses, PairInstructionResponses,
           DraftSettleResponses, DraftPaidResponses)

(***************************************************************************)
(* SpecConcurrent: two calls in flight, interleaved in every way.          *)
(***************************************************************************)
NextConcurrent ==
  \/ NextPair
  \/ Switch

SpecConcurrent == Init /\ [][NextConcurrent]_vars

(***************************************************************************)
(* SpecAgain: a call is made after the previous one is over; `parked`      *)
(* keeps what the previous call left behind.                               *)
(***************************************************************************)
NextAgain ==
  \/ NextPair
  \/ pc = "done" /\ parked.pc = "idle" /\ Switch

SpecAgain == Init /\ [][NextAgain]_vars

(***************************************************************************)
(* Reading the traffic of the call.                                        *)
(***************************************************************************)
\* positions of the requests to, and of the responses of, a service
ReqIdx(svc) == {i \in DOMAIN net : net[i].dir = "req" /\ net[i].svc = svc}
ResIdx(svc) == {i \in DOMAIN net : net[i].dir = "res" /\ net[i].svc = svc}

\* the replay: a request to the paid API that carries a payment proof
IsReplay(i) ==
  i \in DOMAIN net /\ net[i].dir = "req" /\ net[i].svc = "api"
    /\ net[i].payload.xPayment # <<>>
Replays == {i \in DOMAIN net : IsReplay(i)}

\* the requests of the negotiation (all but those to the paid API), in order
NegotiationRequests ==
  SelectSeq(net, LAMBDA e : e.dir = "req" /\ e.svc # "api")

\* the awaits of the read of a response's body
Reading ==
  {"initial-body", "supported-json", "instruction-json", "settle-json", "paid-body"}

\* the call has read the body of the response at position i of net (or there
\* was no response to read: the fetch was rejected)
BodyRead(i) == i < Len(net) \/ pc \notin Reading

\* the responses of a service the call has read
ReadIdx(svc) == {i \in ResIdx(svc) : BodyRead(i)}

\* the call has ended with an error
Failed == pc = "done" /\ outcome.kind = "thrown"

\* handlePayment has ended with the error msg
Rejected(msg) == f.completion.kind = "thrown" /\ f.completion.value = msg

\* handlePayment has ended with an error, and the call has ended with that
\* error or is about to: it is suspended on `await handlePayment(...)`
Failing ==
  /\ f.completion.kind = "thrown"
  /\ \/ pc = "handled"
     \/ Failed /\ outcome.value = f.completion.value

\* a step of a call whose handlePayment has ended with an error is the end
\* of the call with that error, and sends nothing
ErrorSurfaces ==
  (pc = "handled" /\ f.completion.kind = "thrown") =>
    /\ pc' = "done"
    /\ outcome' = [kind |-> "thrown", value |-> f.completion.value]
    /\ net' = net

(***************************************************************************)
(* Claims.                                                                 *)
(***************************************************************************)
\* C1: whenever a settle request has been issued, the fee payer of the signed
\* transaction it carries and the fee payer recorded in its requirements both
\* equal the signer_address of the instruction response; when that address
\* differs from the sponsor the discovery response advertised, the sponsor is
\* not the fee payer of the settled transaction.
C1_FeePayerIsRelaySigner ==
  \A i \in ReqIdx("settle") :
    \E j \in ResIdx("payment-instruction"), k \in ResIdx("supported") :
      LET signer == net[j].payload.signer_address
          sponsor == net[k].payload.feePayer
          settle == net[i].payload
      IN  /\ k < j /\ j < i
          /\ settle.paymentPayload.payload.transaction.message.feePayer = signer
          /\ settle.paymentRequirements.extra.feePayer = signer
          /\ signer # sponsor =>
               /\ settle.paymentPayload.payload.transaction.message.feePayer # sponsor
               /\ settle.paymentRequirements.extra.feePayer # sponsor

\* a settle request was issued after the relay named a signer other than the sponsor
C1_Witness ==
  \E i \in ReqIdx("settle"), j \in ResIdx("payment-instruction"),
     k \in ResIdx("supported") :
       /\ net[j].payload.signer_address = "SponsorB"
       /\ net[k].payload.feePayer = "SponsorA"

\* what the traffic of a call says about its replay
C2_Replay ==
  /\ \A i \in Replays :
       /\ i > 1
       /\ net[i - 1].dir = "res" /\ net[i - 1].svc = "settle"
       /\ Parsed(net[i - 1].payload)
       /\ net[i - 1].payload.has_success /\ net[i - 1].payload.success
  /\ \A j \in ReadIdx("settle") :
       (\/ ~Parsed(net[j].payload)
        \/ ~net[j].payload.has_success
        \/ ~net[j].payload.success)
       => Replays = {} /\ Failing

\* C2: a replay (a request with the payment-proof header) directly follows a
\* settlement response, read, whose success flag is present and true; once a
\* settlement response whose flag is false or absent (or that could not be
\* read, or no response at all) has been dealt with, there is no replay,
\* handlePayment has ended with an error, and the next step of the call, if
\* it has not ended yet, ends it with that error and sends nothing.
C2_ReplayOnlyAfterSettled ==
  /\ []C2_Replay
  /\ [][ErrorSurfaces]_vars

\* the settle endpoint answered without a success flag, though with a
\* transaction, and the call has ended with an error
C2_Witness ==
  /\ \E j \in ResIdx("settle") :
       /\ Parsed(net[j].payload)
       /\ ~net[j].payload.has_success
       /\ net[j].payload.transaction = "sig-1"
  /\ Failed

\* the step a response belongs to has succeeded
StepSucceeded(e) ==
  /\ ~e.payload.failed
  /\ e.svc # "rpc" => e.payload.parsed
  /\ e.svc = "supported" => e.payload.feePayer \notin {Undefined, ""}
  /\ e.svc = "payment-instruction" =>
       e.payload.error = Undefined /\ e.payload.has_instruction
  /\ e.svc = "settle" => e.payload.has_success /\ e.payload.success

\* the service asked before `svc` in a negotiation
AskedBefore(svc) ==
  CASE svc = "rpc" -> "supported"
    [] svc = "payment-instruction" -> "rpc"
    [] svc = "settle" -> "payment-instruction"

C3_Order ==
  /\ Len(NegotiationRequests) <= 4
  /\ \A i \in DOMAIN NegotiationRequests :
       NegotiationRequests[i].svc =
         <<"supported", "rpc", "payment-instruction", "settle">>[i]
  /\ \A i \in DOMAIN net :
       (net[i].dir = "req" /\ net[i].svc \in {"rpc", "payment-instruction", "settle"})
       => /\ i > 1
          /\ net[i - 1].dir = "res" /\ net[i - 1].svc = AskedBefore(net[i].svc)
          /\ StepSucceeded(net[i - 1])
  /\ \A i \in DOMAIN net :
       (net[i].dir = "res" /\ net[i].svc # "api" /\ BodyRead(i)
          /\ ~StepSucceeded(net[i]))
       => i = Len(net) /\ Failing

\* C3: the requests of a negotiation are a prefix of discovery, anchor fetch,
\* instruction, settlement (each at most once, in that order); each is issued
\* directly after the successful response of the one before it; a step that
\* fails is the last thing in the call's traffic and handlePayment has ended
\* with an error; and from then on the call issues nothing more and ends
\* with that error.
C3_SequentialNoRetry ==
  /\ []C3_Order
  /\ [][(Failing /\ ncalls' = ncalls) => (net' = net /\ Failing')]_vars

\* all four requests were issued and the settlement failed
C3_Witness ==
  /\ Len(NegotiationRequests) = 4
  /\ Failed
  /\ net[Len(net)].svc = "settle"

\* C4: once an instruction response that carries an error or lacks the
\* instruction has been read, handlePayment has ended with the error "Failed
\* to get payment instruction: " followed by the relay's error (or "No
\* instruction returned" when it gave none), the call has ended with that
\* error or is about to, and no settle request was issued.
C4_RelayRejected ==
  \A j \in ReadIdx("payment-instruction") :
    LET r == net[j].payload IN
    (Parsed(r) /\ (r.error # Undefined \/ ~r.has_instruction)) =>
      /\ Failing
      /\ Rejected("Failed to get payment instruction: " \o
                    (IF r.error # Undefined THEN r.error ELSE "No instruction returned"))
      /\ ReqIdx("settle") = {}

\* the relay answered {error: "no funds"} together with an instruction
C4_Witness ==
  \E j \in ResIdx("payment-instruction") :
    /\ Parsed(net[j].payload)
    /\ net[j].payload.error = "no funds"
    /\ net[j].payload.has_instruction
    /\ pc = "done"

\* C5: a call issues at most one discovery, one instruction and one settle
\* request; the negotiation is the one for accepts[0] of the 402 body (its
\* tenant, recipient, asset and amount), whatever follows it in accepts; and
\* the response to the replay, 402 included, is the last traffic of the call,
\* which ends once it has read the body, with an error when the status is 402.
C5_OneNegotiation ==
  /\ Cardinality(ReqIdx("supported")) <= 1
  /\ Cardinality(ReqIdx("payment-instruction")) <= 1
  /\ Cardinality(ReqIdx("settle")) <= 1
  /\ \A i \in ReqIdx("supported") :
       LET first == net[2].payload.accepts[1] IN
       /\ f.requirements = first
       /\ net[i].url = "/supported/" \o
            (IF first.tenant = Undefined THEN "unreel-ai" ELSE first.tenant)
  /\ \A i \in ReqIdx("settle") :
       LET first == net[2].payload.accepts[1]
           sent == net[i].payload.paymentRequirements
       IN  /\ sent.payTo = first.payTo
           /\ sent.asset = first.asset
           /\ sent.maxAmountRequired = first.maxAmountRequired
  /\ \A i \in Replays :
       (i + 1 \in DOMAIN net) =>
         /\ Len(net) = i + 1
         /\ pc \in {"paid-body", "done"}
         /\ (pc = "done" /\ ~net[i + 1].payload.failed
               /\ net[i + 1].payload.status = 402) => Failed

\* a 402 with two accepts entries was paid for, the replay was answered 402
\* and the call has ended
C5_Witness ==
  /\ pc = "done"
  /\ Len(net) >= 2 /\ ~net[2].payload.failed
  /\ Len(net[2].payload.accepts) = 2
  /\ \E i \in Replays :
       /\ i + 1 \in DOMAIN net
       /\ ~net[i + 1].payload.failed /\ net[i + 1].payload.status = 402

\* how a call ends that has read the body of the response res to the request
\* of the kind `what` ("API error" or "Paid request failed"): a status
\* 200-299 with a JSON body returns that body, any other status is an error
\* naming the status and the text of the body, and a body that cannot be read
\* is an error
SurfacedAs(res, what) ==
  IF res.status \in 200..299
  THEN IF res.kind = "json"
       THEN /\ outcome.kind = "returned"
            /\ outcome.value.has_accepts = res.has_accepts
            /\ outcome.value.accepts = res.accepts
            /\ outcome.value.job_id = res.job_id
            /\ outcome.value.error = res.error
       ELSE outcome.kind = "thrown"
  ELSE /\ outcome.kind = "thrown"
       /\ res.kind # "broken" =>
            outcome.value =
              what \o " (" \o ToString(res.status) \o "): " \o
                (IF res.kind = "json" THEN JsonText(res)
                 ELSE IF res.kind = "text" THEN res.text
                 ELSE "")

\* C6: when the first response is not a 402 it is the last traffic of the
\* call, with no request to the relay or the ledger, and the call ends once
\* the body is read: a status 200-299 returns the JSON body, any other status
\* is an error naming the status and the body; a response to the replay with
\* a status outside 200-299 is an error too, and the call ends.
C6_NonPaymentResponses ==
  /\ (Len(net) >= 2 /\ ~net[2].payload.failed /\ net[2].payload.status # 402) =>
       /\ Len(net) = 2
       /\ pc \in {"initial-body", "done"}
       /\ Len(NegotiationRequests) = 0
       /\ pc = "done" => SurfacedAs(net[2].payload, "API error")
  /\ \A i \in Replays :
       (i + 1 \in DOMAIN net /\ ~net[i + 1].payload.failed) =>
         /\ Len(net) = i + 1
         /\ pc \in {"paid-body", "done"}
         /\ pc = "done" => SurfacedAs(net[i + 1].payload, "Paid request failed")

\* the first response was a 304, neither a 402 nor ok, and the call has ended
\* with the error that names it
C6_Witness ==
  /\ Len(net) = 2 /\ ~net[2].payload.failed
  /\ net[2].payload.status = 304
  /\ pc = "done"
  /\ outcome.value = "API error (304): "

\* the transaction a request carries: of the instruction request the
\* provisional draft, of the settle request the final one
ProvisionalDraft(i) == net[i].payload.transaction
FinalDraft(i) == net[i].payload.paymentPayload.payload.transaction

\* C7: the draft sent to the instruction endpoint holds one instruction, the
\* token transfer; the draft sent to settlement holds exactly two, that same
\* transfer first and then the relay's instruction (its program, its accounts
\* in the relay's order), whatever the roles of the accounts are.
C7_InstructionOrder ==
  /\ \A i \in ReqIdx("payment-instruction") :
       LET ixs == ProvisionalDraft(i).message.instructions IN
       /\ Len(ixs) = 1
       /\ ixs[1].programId = "TokenProgram"
  /\ \A i \in ReqIdx("settle") :
       \E j \in ResIdx("payment-instruction"), k \in ReqIdx("payment-instruction") :
         LET ixs == FinalDraft(i).message.instructions
             relay == net[j].payload.payment_instruction
         IN  /\ Len(ixs) = 2
             /\ ixs[1].programId = "TokenProgram"
             /\ ixs[1] = ProvisionalDraft(k).message.instructions[1]
             /\ ixs[2].programId = relay.programAddress
             /\ Len(ixs[2].keys) = Len(relay.accounts)
             /\ \A a \in DOMAIN relay.accounts :
                  ixs[2].keys[a].pubkey = relay.accounts[a].address

\* a draft was settled whose relay instruction lists a signer (role 3) after a
\* read-only account (role 0)
C7_Witness ==
  \E i \in ReqIdx("settle"), j \in ResIdx("payment-instruction") :
    LET accounts == net[j].payload.payment_instruction.accounts IN
    /\ Len(accounts) = 2
    /\ accounts[1].role = 0 /\ accounts[2].role = 3

\* C8: in the settled draft the relay instruction has one key per account of
\* the relay's list, in the same order and with the same address, and the
\* flags of each key are those of its own role: 0 -> (signer no, writable no),
\* 1 -> (no, yes), 2 -> (yes, no), 3 -> (yes, yes); every role gets a pair.
C8_RoleMapping ==
  \A i \in ReqIdx("settle") :
    \E j \in ResIdx("payment-instruction") :
      LET keys == FinalDraft(i).message.instructions[2].keys
          accounts == net[j].payload.payment_instruction.accounts
      IN  /\ Len(keys) = Len(accounts)
          /\ \A a \in DOMAIN accounts :
               /\ keys[a].pubkey = accounts[a].address
               /\ keys[a].isSigner \in BOOLEAN /\ keys[a].isWritable \in BOOLEAN
               /\ accounts[a].role = 0 => ~keys[a].isSigner /\ ~keys[a].isWritable
               /\ accounts[a].role = 1 => ~keys[a].isSigner /\ keys[a].isWritable
               /\ accounts[a].role = 2 => keys[a].isSigner /\ ~keys[a].isWritable
               /\ accounts[a].role = 3 => keys[a].isSigner /\ keys[a].isWritable

\* a draft was settled whose relay instruction has a role-2 account at AcctY
\* followed by a role-1 account at AcctX
C8_Witness ==
  \E i \in ReqIdx("settle"), j \in ResIdx("payment-instruction") :
    LET accounts == net[j].payload.payment_instruction.accounts IN
    /\ Len(accounts) = 2
    /\ accounts[1] = [address |-> "AcctY", role |-> 2]
    /\ accounts[2] = [address |-> "AcctX", role |-> 1]

\* the transfer a challenge asks for: from the wallet's token account of the
\* asset to the recipient's, authorized by the wallet, of the required amount
RequiredTransfer(challenge) ==
  [programId |-> "TokenProgram",
   keys |-> << [pubkey |-> "ata:" \o challenge.asset \o ":Wallet",
                isSigner |-> FALSE, isWritable |-> TRUE],
               [pubkey |-> "ata:" \o challenge.asset \o ":" \o challenge.payTo,
                isSigner |-> FALSE, isWritable |-> TRUE],
               [pubkey |-> "Wallet", isSigner |-> TRUE, isWritable |-> FALSE] >>,
   data |-> <<3, IF challenge.maxAmountRequired = "25000000" THEN 25000000 ELSE 0>>]

\* C9: the anchor is fetched once; the provisional draft carries the anchor
\* that fetch returned, the advertised sponsor as fee payer and the transfer the
\* challenge asks for; the final draft carries the same anchor and the same
\* transfer, followed by one more instruction, with the relay's signer as fee
\* payer.
C9_DraftsAgree ==
  /\ Cardinality(ReqIdx("rpc")) <= 1
  /\ \A i \in ReqIdx("payment-instruction") :
       \E b \in ResIdx("rpc"), k \in ResIdx("supported") :
         LET base == ProvisionalDraft(i).message IN
         /\ base.recentBlockhash = net[b].payload.blockhash
         /\ base.feePayer = net[k].payload.feePayer
         /\ base.instructions = <<RequiredTransfer(net[2].payload.accepts[1])>>
  /\ \A i \in ReqIdx("settle") :
       \E j \in ReqIdx("payment-instruction"), r \in ResIdx("payment-instruction") :
         LET base == ProvisionalDraft(j).message
             final == FinalDraft(i).message
         IN  /\ final.recentBlockhash = base.recentBlockhash
             /\ Len(final.instructions) = 2
             /\ SubSeq(final.instructions, 1, 1) = base.instructions
             /\ final.feePayer = net[r].payload.signer_address

\* a transfer of 25000000 was settled with anchor bh-2 under a signer other
\* than the sponsor
C9_Witness ==
  \E i \in ReqIdx("settle") :
    /\ FinalDraft(i).message.recentBlockhash = "bh-2"
    /\ FinalDraft(i).message.feePayer # f.feePayerAddress
    /\ f.requirements.maxAmountRequired = "25000000"

\* C10: every settle request names the network of the challenge in both
\* paymentPayload and paymentRequirements, and carries the challenge's amount,
\* recipient and asset, with the relay-assigned signer as fee payer.
C10_SettleMatchesChallenge ==
  \A i \in ReqIdx("settle") :
    \E r \in ResIdx("payment-instruction") :
      LET challenge == net[2].payload.accepts[1]
          sent == net[i].payload
      IN  /\ sent.paymentPayload.network = challenge.network
          /\ sent.paymentRequirements.network = challenge.network
          /\ sent.paymentRequirements.maxAmountRequired = challenge.maxAmountRequired
          /\ sent.paymentRequirements.payTo = challenge.payTo
          /\ sent.paymentRequirements.asset = challenge.asset
          /\ sent.paymentRequirements.extra.feePayer = net[r].payload.signer_address


(***************************************************************************)
(* The challenge of the call: accepts[0] of a 402 answer to the first      *)
(* request.                                                                *)
(***************************************************************************)
HasChallenge ==
  /\ Len(net) >= 2
  /\ ~net[2].payload.failed
  /\ net[2].payload.status = 402
  /\ net[2].payload.kind = "json"
  /\ Len(net[2].payload.accepts) > 0
  /\ BodyRead(2)
TheChallenge == net[2].payload.accepts[1]

\* the amount of a challenge is a number that is zero or negative
NonPositiveAmount(challenge) ==
  ~NumberOf(challenge.maxAmountRequired).nan
    /\ NumberOf(challenge.maxAmountRequired).val <= 0

\* C11: a challenge whose amount is zero or negative, or whose recipient or
\* asset address is malformed, makes the call fail: no instruction request
\* and no settle request is ever sent for it, and the call does not return.
C11_InvalidChallengeRejected ==
  (HasChallenge
     /\ (\/ NonPositiveAmount(TheChallenge)
         \/ ~IsPublicKey(TheChallenge.payTo)
         \/ ~IsPublicKey(TheChallenge.asset)))
  => /\ ReqIdx("payment-instruction") = {}
     /\ ReqIdx("settle") = {}
     /\ outcome.kind # "returned"

\* C12: once a discovery response without a fee payer (missing or empty)
\* has been read, handlePayment has ended with "Failed to get fee payer from
\* x402 service", the call has ended with that error or is about to, and the
\* response is the last traffic of the call: no anchor fetch, instruction
\* request or settle request follows; any other discovery response makes its
\* fee payer the fee payer of the provisional draft sent to the relay.
C12_SponsorUnavailable ==
  \A k \in ReadIdx("supported") :
    LET res == net[k].payload IN
    Parsed(res) =>
      IF ~Truthy(res.feePayer)
      THEN /\ Len(net) = k
           /\ ReqIdx("rpc") = {}
           /\ ReqIdx("payment-instruction") = {}
           /\ ReqIdx("settle") = {}
           /\ Rejected("Failed to get fee payer from x402 service")
           /\ Failing
      ELSE \A i \in ReqIdx("payment-instruction") :
             net[i].payload.transaction.message.feePayer = res.feePayer

\* the discovery response carried an empty fee payer and the call has failed
C12_Witness ==
  \E k \in ResIdx("supported") :
    /\ Parsed(net[k].payload)
    /\ net[k].payload.feePayer = ""
    /\ Failed

\* C13: the replay goes to the endpoint of the first request with the body of
\* the first request, and its payment proof carries the transaction identifier
\* of the successful settle response of this call and the network of the
\* challenge.
C13_ReplayCarriesProof ==
  \A i \in Replays :
    /\ i > 2
    /\ net[i - 1].dir = "res" /\ net[i - 1].svc = "settle"
    /\ Parsed(net[i - 1].payload) /\ net[i - 1].payload.success
    /\ net[i].url = net[1].url
    /\ net[i].url = call.endpoint
    /\ net[i].payload.body = net[1].payload.body
    /\ Len(net[i].payload.xPayment) = 1
    /\ net[i].payload.xPayment[1].payload.transaction = net[i - 1].payload.transaction
    /\ HasChallenge
    /\ net[i].payload.xPayment[1].network = TheChallenge.network

\* a replay for a challenge on another network than the settle request names
C13_Witness ==
  \E i \in Replays :
    /\ TheChallenge.network = "solana-devnet"
    /\ net[i].payload.xPayment[1].payload.transaction = "sig-2"
    /\ net[i].url = "/api/other"

(***************************************************************************)
(* Reading what pollJobStatus did.                                         *)
(***************************************************************************)
FetchIdx == {i \in DOMAIN plog : plog[i].ev = "fetch"}
\* the answers pollJobStatus has dealt with: all but one whose body it is
\* reading
AnswerIdx ==
  {i \in DOMAIN plog : plog[i].ev = "response" /\ (i < Len(plog) \/ ppc # "json")}
WaitIdx == {i \in DOMAIN plog : plog[i].ev = "wait"}

\* the delays waited, in order
Waits == SelectSeq(plog, LAMBDA e : e.ev = "wait")

\* the status endpoint answered with a job: 200 and a JSON body
IsJobAnswer(e) ==
  e.ev = "response" /\ ~e.res.failed /\ e.res.http = 200 /\ e.res.kind = "json"

HasStatus(e, status) == IsJobAnswer(e) /\ e.res.status = status

\* C14: a completed status ends the poll at once with the job as result, one
\* delay having been waited after each earlier answer; a failed status ends
\* the poll at once with "Job failed: <error or Unknown error>"; nothing is
\* fetched or waited after either, and the poll returns in no other case.
C14_CompletedOrFailedEndsPoll ==
  /\ \A i \in AnswerIdx :
       /\ HasStatus(plog[i], "completed") =>
            /\ i = Len(plog)
            /\ ppc = "done"
            /\ poutcome = [kind |-> "returned", message |-> "",
                           job |-> [status |-> "completed", error |-> plog[i].res.error]]
            /\ Cardinality(WaitIdx) = Cardinality(AnswerIdx) - 1
            /\ Cardinality(FetchIdx) = Cardinality(AnswerIdx)
       /\ HasStatus(plog[i], "failed") =>
            /\ i = Len(plog)
            /\ ppc = "done"
            /\ poutcome = [kind |-> "thrown",
                           message |-> "Job failed: " \o
                                       (IF plog[i].res.error = Undefined
                                        THEN "Unknown error" ELSE plog[i].res.error),
                           job |-> NoJob]
  /\ poutcome.kind = "returned" =>
       Len(plog) > 0 /\ HasStatus(plog[Len(plog)], "completed")

\* pending, pending, completed: returned after three fetches and two delays
C14_Witness ==
  /\ Len(plog) = 8
  /\ HasStatus(plog[2], "pending")
  /\ HasStatus(plog[5], "pending")
  /\ HasStatus(plog[8], "completed")
  /\ Cardinality(FetchIdx) = 3
  /\ Len(Waits) = 2
  /\ poutcome.kind = "returned"

\* C15: a missing-job answer (HTTP 404) of the status endpoint ends the poll
\* with "Job not found: <jobId>"; nothing is fetched or waited after it.
C15_MissingJobEndsPoll ==
  \A i \in AnswerIdx :
    (~plog[i].res.failed /\ plog[i].res.http = 404) =>
      /\ i = Len(plog)
      /\ ppc = "done"
      /\ poutcome = [kind |-> "thrown",
                     message |-> "Job not found: " \o poller.jobId, job |-> NoJob]

\* C16: the poll makes at most maxAttempts fetches and is over once attempt
\* reaches maxAttempts; when every one of its fetches was answered by a job
\* neither completed nor failed, it ends with "Job timed out after
\* <maxAttempts> attempts" after maxAttempts fetches; with maxAttempts = 0 it
\* ends so without a fetch.
C16_BoundedAttempts ==
  ppc # "idle" =>
    /\ Cardinality(FetchIdx) <= poller.maxAttempts
    /\ (ppc \in {"fetch", "json", "sleep"} => poller.attempt < poller.maxAttempts)
    /\ (ppc = "done"
          /\ \A i \in AnswerIdx :
               IsJobAnswer(plog[i]) /\ plog[i].res.status \notin {"completed", "failed"})
       => /\ poutcome = [kind |-> "thrown",
                         message |-> "Job timed out after "
                                     \o ToString(poller.maxAttempts) \o " attempts",
                         job |-> NoJob]
          /\ Cardinality(FetchIdx) = poller.maxAttempts
    /\ poller.maxAttempts = 0 => ppc = "done" /\ plog = <<>>

\* three fetches, none completed or failed, and the poll has timed out
C16_Witness ==
  /\ poller.maxAttempts = 3
  /\ Cardinality(FetchIdx) = 3
  /\ \A i \in AnswerIdx : HasStatus(plog[i], "pending")
  /\ ppc = "done"
  /\ poutcome.kind = "thrown"

\* C17: with initialDelay = 5000 each of the first 10 waits is below 30000,
\* every later wait is 30000, the waits never decrease, and the delay
\* variable is 30000 once 10 attempts have been counted.
C17_BackoffReachesCeiling ==
  poller.initialDelay = Rat(5000) =>
    /\ \A k \in DOMAIN Waits :
         /\ k <= 10 => RatLess(Waits[k].delay, Rat(30000))
         /\ k > 10 => Waits[k].delay = Rat(30000)
         /\ k > 1 => RatLeq(Waits[k - 1].delay, Waits[k].delay)
    /\ poller.attempt < 10 => RatLess(poller.delay, Rat(30000))
    /\ poller.attempt >= 10 => poller.delay = Rat(30000)

\* twelve waits from 5000 on
C17_Witness ==
  /\ poller.initialDelay = Rat(5000)
  /\ Len(Waits) = 12
  /\ Waits[1].delay = Rat(5000)
  /\ Waits[2].delay = Rat(6000)

\* C18: every delay the poll waits, the first one included, is at most 30000,
\* whatever initialDelay is.
C18_WaitsBelowCeiling ==
  \A k \in DOMAIN Waits : RatLeq(Waits[k].delay, Rat(30000))

\* C19: the poll waits, and fetches again, only after an answer whose job
\* status is pending.
C19_RetryOnlyWhenPending ==
  /\ \A i \in WaitIdx : i > 1 /\ HasStatus(plog[i - 1], "pending")
  /\ \A i \in FetchIdx :
       i > 1 => plog[i - 1].ev = "wait" /\ i > 2 /\ HasStatus(plog[i - 2], "pending")

\* C20: whichever of the three wire shapes a byte sequence arrives in (flat
\* array, {data: array}, or map from index to byte), the data of the
\* instruction built from it is that byte sequence, the empty one included.
C20_PayloadNormalized ==
  parse.done => parse.buffer = parse.bytes

\* a three-byte payload that arrived as a keyed map has been parsed
C20_Witness ==
  /\ parse.done
  /\ parse.data.shape = "map"
  /\ parse.bytes = <<255, 0, 7>>
  /\ parse.buffer = <<255, 0, 7>>

(***************************************************************************)
(* Reading the traffic of either call: c is Running or parked.             *)
(***************************************************************************)
ReqOf(c, svc) == {i \in DOMAIN c.net : c.net[i].dir = "req" /\ c.net[i].svc = svc}
ResOf(c, svc) == {i \in DOMAIN c.net : c.net[i].dir = "res" /\ c.net[i].svc = svc}

\* the transfer a challenge asks for
TransferFor(challenge) ==
  createTransferInstruction(
    getAssociatedTokenAddress(challenge.asset, wallet),
    getAssociatedTokenAddress(challenge.asset, challenge.payTo),
    wallet,
    NumberOf(challenge.maxAmountRequired).val)

\* the instruction request and the settle request of call c are built from
\* the challenge, the sponsor, the anchor and the signer that c itself received
UsesOwnInputs(c) ==
  /\ \A i \in ReqOf(c, "payment-instruction") :
       \E k \in ResOf(c, "supported"), b \in ResOf(c, "rpc") :
         LET challenge == c.net[2].payload.accepts[1]
             sent == c.net[i].payload
         IN  /\ k < i /\ b < i
             /\ sent.feeToken = challenge.asset
             /\ sent.transaction.message.feePayer = c.net[k].payload.feePayer
             /\ sent.transaction.message.recentBlockhash = c.net[b].payload.blockhash
             /\ sent.transaction.message.instructions = <<TransferFor(challenge)>>
  /\ \A i \in ReqOf(c, "settle") :
       \E b \in ResOf(c, "rpc"), r \in ResOf(c, "payment-instruction") :
         LET challenge == c.net[2].payload.accepts[1]
             sent == c.net[i].payload
             final == sent.paymentPayload.payload.transaction.message
         IN  /\ b < i /\ r < i
             /\ final.feePayer = c.net[r].payload.signer_address
             /\ final.recentBlockhash = c.net[b].payload.blockhash
             /\ final.instructions[1] = TransferFor(challenge)
             /\ sent.paymentRequirements.maxAmountRequired = challenge.maxAmountRequired
             /\ sent.paymentRequirements.payTo = challenge.payTo
             /\ sent.paymentRequirements.asset = challenge.asset
             /\ sent.paymentRequirements.extra.feePayer = c.net[r].payload.signer_address

\* C21: however two concurrent calls are interleaved, the instruction request
\* and the settle request of each are built from that call's own challenge
\* (amount, recipient, asset), its own anchor, its own sponsor and its own
\* relay-assigned signer.
C21_CallsAreIsolated ==
  UsesOwnInputs(Running) /\ UsesOwnInputs(parked)

\* both calls are suspended on their settle request at once, each for its own
\* challenge, anchor, sponsor and signer
C21_Witness ==
  /\ pc = "settle"
  /\ parked.pc = "settle"
  /\ net[2].payload.accepts[1] # parked.net[2].payload.accepts[1]
  /\ f.blockhash = "bh-1" /\ parked.f.blockhash = "bh-2"
  /\ f.feePayerAddress = "SponsorA" /\ parked.f.feePayerAddress = "SponsorB"
  /\ f.signerAddress = "SponsorB" /\ parked.f.signerAddress = "SponsorA"

\* C22: a call starts with no local of handlePayment set; before it sends a
\* draft it has made one discovery request and one anchor fetch of its own,
\* in that order, and the drafts it sends carry the sponsor and the anchor
\* those returned and the relay instruction of its own instruction response,
\* also when the previous call failed after obtaining others.
C22_FreshNegotiation ==
  /\ pc = "initial" => f = NewFrame /\ Len(net) = 1
  /\ \A i \in ReqIdx("payment-instruction") :
       \E ks \in ReqIdx("supported"), k \in ResIdx("supported"),
          bs \in ReqIdx("rpc"), b \in ResIdx("rpc") :
         /\ ks < k /\ k < bs /\ bs < b /\ b < i
         /\ Cardinality(ReqIdx("supported")) = 1
         /\ Cardinality(ReqIdx("rpc")) = 1
         /\ ProvisionalDraft(i).message.feePayer = net[k].payload.feePayer
         /\ ProvisionalDraft(i).message.recentBlockhash = net[b].payload.blockhash
  /\ \A i \in ReqIdx("settle") :
       \E b \in ResIdx("rpc"), r \in ResIdx("payment-instruction") :
         /\ b < r /\ r < i
         /\ FinalDraft(i).message.recentBlockhash = net[b].payload.blockhash
         /\ FinalDraft(i).message.instructions[2]
              = KoraInstruction(net[r].payload.payment_instruction)

\* the previous call failed holding anchor bh-1 and sponsor SponsorA; the
\* call made after it has sent drafts with anchor bh-2 and sponsor SponsorB
C22_Witness ==
  /\ parked.pc = "done"
  /\ parked.outcome.kind = "thrown"
  /\ parked.f.blockhash = "bh-1"
  /\ parked.f.feePayerAddress = "SponsorA"
  /\ ReqIdx("settle") # {}
  /\ f.blockhash = "bh-2"
  /\ f.feePayerAddress = "SponsorB"

\* the accounts whose signature a serialized transaction carries
SignedBy(serialized) ==
  {s \in DOMAIN serialized.signatures : serialized.signatures[s]}

\* C23: the draft sent to the instruction endpoint carries no signature; the
\* transaction sent to settlement is the final draft (the relay's signer as
\* fee payer, two instructions) and carries exactly one signature, the
\* wallet's; the wallet has signed nothing before the final draft is built
\* and nothing else after.
C23_SignedOnceFinalOnly ==
  /\ \A i \in ReqIdx("payment-instruction") : SignedBy(ProvisionalDraft(i)) = {}
  /\ \A i \in ReqIdx("settle") :
       \E r \in ResIdx("payment-instruction") :
         /\ SignedBy(FinalDraft(i)) = {wallet}
         /\ FinalDraft(i).message.feePayer = net[r].payload.signer_address
         /\ Len(FinalDraft(i).message.instructions) = 2
  /\ f.transaction.signatures = IF ReqIdx("settle") = {} THEN {} ELSE {wallet}

\* a settle request whose transaction has three signature slots (the relay's
\* fee payer, the wallet, an account of the relay instruction) of which only
\* the wallet's is filled
C23_Witness ==
  \E i \in ReqIdx("settle") :
    /\ Cardinality(DOMAIN FinalDraft(i).signatures) = 3
    /\ SignedBy(FinalDraft(i)) = {wallet}
    /\ FinalDraft(i).message.feePayer # wallet

\* C24: handlePayment returns, and the replay is sent, only with a
\* transaction identifier that the settle response of this call carries: the
\* response before a replay has a `transaction`, and the value handlePayment
\* returned, the proof of the replay and txSignature are that identifier.
C24_ProofIdentifierPresent ==
  /\ \A i \in Replays :
       /\ i > 1
       /\ net[i - 1].dir = "res" /\ net[i - 1].svc = "settle"
       /\ Parsed(net[i - 1].payload)
       /\ net[i - 1].payload.transaction # Undefined
       /\ net[i].payload.xPayment[1].payload.transaction = net[i - 1].payload.transaction
  /\ f.completion.kind = "returned" =>
       \E r \in ResIdx("settle") :
         /\ Parsed(net[r].payload)
         /\ net[r].payload.transaction # Undefined
         /\ net[r].payload.transaction = f.completion.value
  /\ txSignature # Undefined =>
       \E r \in ResIdx("settle") :
         Parsed(net[r].payload) /\ net[r].payload.transaction = txSignature
  /\ pc = "paid" => txSignature # Undefined

\* C25: once an instruction response that carries a payment instruction, no
\* error and no signer_address has been read, handlePayment has ended with
\* an error (and the call with it, at once or at its next step): the
\* response is the last traffic of the call, no settle request is sent, the
\* wallet has signed nothing and no signed transaction exists, so the step-1
\* sponsor is never the fee payer of a final draft.
C25_MissingSignerFails ==
  \A r \in ReadIdx("payment-instruction") :
    LET res == net[r].payload IN
    (Parsed(res) /\ res.has_instruction /\ ~Truthy(res.error)
       /\ res.signer_address = Undefined)
    => /\ r = Len(net)
       /\ Failing
       /\ ReqIdx("settle") = {}
       /\ f.transaction.signatures = {}
       /\ f.signedTx = NewFrame.signedTx

\* the relay returned a usable instruction without a signer_address, after a
\* well-formed sponsor had been resolved, and the call has failed
C25_Witness ==
  \E r \in ResIdx("payment-instruction") :
    /\ Parsed(net[r].payload)
    /\ net[r].payload.has_instruction
    /\ net[r].payload.error = Undefined
    /\ net[r].payload.signer_address = Undefined
    /\ ~KoraThrows(net[r].payload.payment_instruction)
    /\ f.feePayerAddress = "SponsorA"
    /\ Failed

=============================================================================
